---- MODULE Spec2Model ----
(***************************************************************************)
(* Model of src/app.py, the Streamlit diabetes risk assessment page.       *)
(*                                                                         *)
(* One run of the script = the form widgets return their values, and, when *)
(* the submit button was pressed, the handler of lines 47-142 builds the   *)
(* one-row record, calls the predictor and renders the result.             *)
(*                                                                         *)
(* Units.  Probabilities are integers in millionths (200000 is 0.2), BMI   *)
(* and HbA1c are integers in tenths (250 is 25.0), so that the comparisons *)
(* of the source keep their exact boundaries.                              *)
(*                                                                         *)
(* Feature names are sequences of tokens (<<"num", "age">> is "num__age"); *)
(* Python's  key in feature_name  is containment of the token.             *)
(***************************************************************************)
EXTENDS Integers, Sequences, FiniteSets, TLC

VARIABLES
    model,          \* the loaded pipeline: predictor and classifier (line 9)
    feature_names,  \* the loaded feature-name list (lines 13-14)
    top_features,   \* rows sort_values(...).head(3) yields for the loaded table
    loaded,         \* history: the artifacts as they were when first loaded
    failed_before,  \* history: an earlier submission ended in the except clause
    widgets,        \* values the form widgets returned in the last run
    submitted,      \* value of form_submit_button in the last run
    input_data,     \* records handed to predict_proba in the last run (0 or 1)
    page            \* elements the handler rendered in the last run, in order

vars == <<model, feature_names, top_features, loaded, failed_before,
          widgets, submitted, input_data, page>>

----------------------------------------------------------------------------
(* Bounds of the model *)

\* longest feature-name list
MaxFeatures == 4
\* importance weights range over 0..MaxWeight
MaxWeight == 1

----------------------------------------------------------------------------
(* The form, lines 27-44 *)

GenderOptions == <<"Female", "Male", "Other">>
YesNoOptions == <<"No", "Yes">>
SmokingOptions == <<"Never", "Former", "Current", "Unknown">>

AgeMin == 18
AgeMax == 120
AgeDefault == 30
BmiMin == 100
BmiMax == 600
BmiDefault == 250
HbA1cMin == 30
HbA1cMax == 150
HbA1cDefault == 50
GlucoseMin == 50
GlucoseMax == 300
GlucoseDefault == 100

Range(s) == {s[i] : i \in DOMAIN s}

\* st.selectbox: the value is one of the options; the first is the default
SelectBox(options) == Range(options)

\* st.number_input: a typed value is taken only within [min_value, max_value]
\* (variant: max_value not enforced)
NumberInputMutant(v, min_value, max_value) == min_value <= v
NumberInput(v, min_value, max_value) == min_value <= v /\ v <= max_value

\* the values of the widgets when nothing was touched
Defaults ==
    [gender |-> GenderOptions[1], age |-> AgeDefault,
     hypertension |-> YesNoOptions[1], heart_disease |-> YesNoOptions[1],
     smoking_history |-> SmokingOptions[1], bmi |-> BmiDefault,
     hba1c_level |-> HbA1cDefault, blood_glucose_level |-> GlucoseDefault]

\* what a user tries to type into a number field: both ends of the range and
\* the first value beyond each end
Typed(min_value, max_value) ==
    {min_value - 1, min_value, max_value, max_value + 1}

\* The forms a user fills in: at most one of the eight widgets moved away
\* from its default.
TypedForms ==
    {[Defaults EXCEPT !.gender = g] : g \in SelectBox(GenderOptions)}
    \cup {[Defaults EXCEPT !.hypertension = h] : h \in SelectBox(YesNoOptions)}
    \cup {[Defaults EXCEPT !.heart_disease = d] : d \in SelectBox(YesNoOptions)}
    \cup {[Defaults EXCEPT !.smoking_history = s] : s \in SelectBox(SmokingOptions)}
    \cup {[Defaults EXCEPT !.age = v] : v \in Typed(AgeMin, AgeMax)}
    \cup {[Defaults EXCEPT !.bmi = v] : v \in Typed(BmiMin, BmiMax)}
    \cup {[Defaults EXCEPT !.hba1c_level = v] : v \in Typed(HbA1cMin, HbA1cMax)}
    \cup {[Defaults EXCEPT !.blood_glucose_level = v] :
             v \in Typed(GlucoseMin, GlucoseMax)}

\* the form as the widgets of lines 32-42 accept it
FormAccepts(w) ==
    /\ w.gender \in SelectBox(GenderOptions)
    /\ NumberInput(w.age, AgeMin, AgeMax)
    /\ w.hypertension \in SelectBox(YesNoOptions)
    /\ w.heart_disease \in SelectBox(YesNoOptions)
    /\ w.smoking_history \in SelectBox(SmokingOptions)
    /\ NumberInput(w.bmi, BmiMin, BmiMax)
    /\ NumberInput(w.hba1c_level, HbA1cMin, HbA1cMax)
    /\ NumberInput(w.blood_glucose_level, GlucoseMin, GlucoseMax)

----------------------------------------------------------------------------
(* The record handed to the predictor, lines 49-58 *)

\* str.lower() on the four smoking options
Lower(s) ==
    CASE s = "Never" -> "never"
      [] s = "Former" -> "former"
      [] s = "Current" -> "current"
      [] s = "Unknown" -> "unknown"
      [] OTHER -> s

\* 1 if answer == "Yes" else 0
YesFlag(answer) == IF answer = "Yes" THEN 1 ELSE 0

InputData(w) ==
    [gender |-> w.gender, age |-> w.age,
     hypertension |-> YesFlag(w.hypertension),
     heart_disease |-> YesFlag(w.heart_disease),
     smoking_history |-> Lower(w.smoking_history),
     bmi |-> w.bmi, HbA1c_level |-> w.hba1c_level,
     blood_glucose_level |-> w.blood_glucose_level]

----------------------------------------------------------------------------
(* The loaded artifacts, lines 8-14 *)

\* probabilities a predictor returns, in millionths: both sides of each
\* threshold, the ends of [0,1] and 0.35
Probs == {0, 199999, 200000, 350000, 499999, 500000, 1000000}

SmokingValues == {Lower(s) : s \in Range(SmokingOptions)}

\* The pipeline is opaque and deterministic.  A predictor is a table from the
\* record's hypertension column to a probability, with the set of smoking
\* categories its encoder rejects.
Predictors ==
    [predict_proba : [0..1 -> Probs],
     unseen : {{}, {"unknown"}, SmokingValues}]

BaselinePredictor ==
    [predict_proba |-> [h \in 0..1 |-> 350000], unseen |-> {}]

\* model.predict_proba(input_data)[0][1], line 62-63
\* raised: predict_proba raises (a category the encoder rejects, a shape
\* mismatch); otherwise risk_score is the probability of the positive class
PredictProba(m, rec) ==
    IF rec.smoking_history \in m.unseen
    THEN [raised |-> TRUE, risk_score |-> 0]
    ELSE [raised |-> FALSE, risk_score |-> m.predict_proba[rec.hypertension]]

\* the feature names a preprocessor produces from the eight columns
FeaturePool ==
    << <<"num", "age">>, <<"num", "bmi">>, <<"num", "HbA1c_level">>,
       <<"num", "blood_glucose_level">>, <<"hypertension">>,
       <<"heart_disease">>, <<"cat", "gender", "Male">>,
       <<"cat", "smoking_history", "current">> >>

\* n consecutive names of the pool, starting at the k-th
Window(k, n) ==
    [i \in 1..n |-> FeaturePool[((k + i - 2) % Len(FeaturePool)) + 1]]

\* the lists of names an artifact holds: windows starting at every other name
FeatureNameLists ==
    {Window(k, n) : k \in {j \in 1..Len(FeaturePool) : j % 2 = 1},
                    n \in 1..MaxFeatures}

BaselineNames == Window(3, MaxFeatures)

Weights(n) == [1..n -> 0..MaxWeight]

\* The classifier of the pipeline: with or without feature_importances_
Classifiers(names) ==
    {[has_importances |-> FALSE, feature_importances_ |-> <<>>]}
    \cup {[has_importances |-> TRUE, feature_importances_ |-> w] :
             w \in Weights(Len(names))}

\* classifiers whose importance vector is one shorter or one longer than the
\* feature-name list
MismatchedClassifiers(names) ==
    {[has_importances |-> TRUE, feature_importances_ |-> [i \in 1..n |-> MaxWeight]] :
        n \in {Len(names) - 1, Len(names) + 1}}

----------------------------------------------------------------------------
(* Rendering.  An element is one st.* call of the handler. *)

El(kind, text, style, value, items, row) ==
    [kind |-> kind, text |-> text, style |-> style, value |-> value,
     items |-> items, row |-> row]

\* except Exception as e: st.error(f"An error occurred: ...")   (lines 141-142)
ErrorMessage == El("error", "An error occurred", "", 0, <<>>, 0)

\* f"{risk_score:.1%}": the score in tenths of a percent
FormatPercent(risk_score) == (risk_score + 500) \div 1000

----------------------------------------------------------------------------
(* Risk level, lines 69-77 *)

LowBelow == 200000
ModerateBelow == 500000

\* (variant: <= in place of <)
RiskLevelMutant(risk_score) ==
    IF risk_score <= LowBelow
    THEN [risk_level |-> "Low Risk", color |-> "green"]
    ELSE IF risk_score <= ModerateBelow
         THEN [risk_level |-> "Moderate Risk", color |-> "orange"]
         ELSE [risk_level |-> "High Risk", color |-> "red"]
RiskLevel(risk_score) ==
    IF risk_score < LowBelow
    THEN [risk_level |-> "Low Risk", color |-> "green"]
    ELSE IF risk_score < ModerateBelow
         THEN [risk_level |-> "Moderate Risk", color |-> "orange"]
         ELSE [risk_level |-> "High Risk", color |-> "red"]

(* Recommendations, lines 93-112 *)

LowItems ==
    <<"Maintain your healthy lifestyle",
      "Continue regular check-ups",
      "Monitor your blood sugar levels annually">>
ModerateItems ==
    <<"Consider lifestyle modifications (diet, exercise)",
      "Monitor your blood sugar levels more frequently",
      "Consult with your healthcare provider about prevention strategies",
      "Consider losing weight if overweight">>
HighItems ==
    <<"Please consult with a healthcare provider immediately",
      "Significant lifestyle changes are recommended",
      "Regular monitoring of blood sugar levels is essential",
      "You may need medical intervention">>

\* (variant: the Moderate and High blocks exchanged)
RecommendationsMutant(risk_level) ==
    IF risk_level = "Low Risk"
    THEN <<El("success", "", "", 0, LowItems, 0)>>
    ELSE IF risk_level = "High Risk"
         THEN <<El("warning", "", "", 0, ModerateItems, 0)>>
         ELSE <<El("error", "", "", 0, HighItems, 0)>>
Recommendations(risk_level) ==
    IF risk_level = "Low Risk"
    THEN <<El("success", "", "", 0, LowItems, 0)>>
    ELSE IF risk_level = "Moderate Risk"
         THEN <<El("warning", "", "", 0, ModerateItems, 0)>>
         ELSE <<El("error", "", "", 0, HighItems, 0)>>

\* lines 66-112: everything rendered between the prediction and the
\* importance section
Results(risk_score) ==
    LET lv == RiskLevel(risk_score)
    IN  <<El("subheader", "Risk Assessment Results", "", 0, <<>>, 0),
          El("metric", "Diabetes Risk Score", lv.risk_level,
             FormatPercent(risk_score), <<>>, 0),
          El("progress", "", "", risk_score, <<>>, 0),
          El("write", "classified as", lv.color, 0, <<lv.risk_level>>, 0),
          El("subheader", "Recommendations", "", 0, <<>>, 0)>>
        \o Recommendations(lv.risk_level)

----------------------------------------------------------------------------
(* Feature importance explanation, lines 115-139 *)

TopK == 3

\* key in feature_name
\* (variant: equality in place of containment)
ContainsMutant(key, feature_name) == feature_name = <<key>>
Contains(key, feature_name) ==
    \E i \in DOMAIN feature_name : feature_name[i] = key

Perms(n) == {p \in [1..n -> 1..n] : \A i, j \in 1..n : p[i] = p[j] => i = j}

\* sort_values('importance', ascending=False) with the default kind
\* ('quicksort'), which is not a stable sort: the rows come out by importance
\* descending, rows of equal importance in an order the build decides.
\* (variant: ascending=True)
SortValuesOutcomesMutant(importances) ==
    {p \in Perms(Len(importances)) :
        \A i, j \in 1..Len(importances) :
            i < j => importances[p[i]] <= importances[p[j]]}
SortValuesOutcomes(importances) ==
    {p \in Perms(Len(importances)) :
        \A i, j \in 1..Len(importances) :
            i < j => importances[p[i]] >= importances[p[j]]}

\* .head(k)
\* (variant: .head(3) left out)
headMutant(s, k) == s
head(s, k) == SubSeq(s, 1, IF Len(s) < k THEN Len(s) ELSE k)

\* what line 121 can yield for a table; nothing when the table is never
\* built (no feature_importances_, or columns of different lengths)
TopFeaturesOutcomes(names, classifier) ==
    IF classifier.has_importances
       /\ Len(names) = Len(classifier.feature_importances_)
    THEN {head(p, TopK) : p \in SortValuesOutcomes(classifier.feature_importances_)}
    ELSE {<<>>}

\* lines 128-139: the sentence written for one row of top_features, if any
\* (variant: the two Yes conditions left out)
KeyFactorMutant(feature_name, row, w) ==
    IF Contains("HbA1c_level", feature_name)
    THEN <<El("write", "High HbA1c Level", "", w.hba1c_level, <<>>, row)>>
    ELSE IF Contains("blood_glucose_level", feature_name)
    THEN <<El("write", "Blood Glucose Level", "", w.blood_glucose_level, <<>>, row)>>
    ELSE IF Contains("bmi", feature_name)
    THEN <<El("write", "BMI", "", w.bmi, <<>>, row)>>
    ELSE IF Contains("age", feature_name)
    THEN <<El("write", "Age", "", w.age, <<>>, row)>>
    ELSE IF Contains("hypertension", feature_name)
    THEN <<El("write", "Hypertension", "", 0, <<>>, row)>>
    ELSE IF Contains("heart_disease", feature_name)
    THEN <<El("write", "Heart Disease", "", 0, <<>>, row)>>
    ELSE <<>>
KeyFactor(feature_name, row, w) ==
    IF Contains("HbA1c_level", feature_name)
    THEN <<El("write", "High HbA1c Level", "", w.hba1c_level, <<>>, row)>>
    ELSE IF Contains("blood_glucose_level", feature_name)
    THEN <<El("write", "Blood Glucose Level", "", w.blood_glucose_level, <<>>, row)>>
    ELSE IF Contains("bmi", feature_name)
    THEN <<El("write", "BMI", "", w.bmi, <<>>, row)>>
    ELSE IF Contains("age", feature_name)
    THEN <<El("write", "Age", "", w.age, <<>>, row)>>
    ELSE IF Contains("hypertension", feature_name) /\ w.hypertension = "Yes"
    THEN <<El("write", "Hypertension", "", 0, <<>>, row)>>
    ELSE IF Contains("heart_disease", feature_name) /\ w.heart_disease = "Yes"
    THEN <<El("write", "Heart Disease", "", 0, <<>>, row)>>
    ELSE <<>>

\* the loop of line 123 over the rows of top_features
RECURSIVE KeyFactors(_, _, _)
KeyFactors(top, names, w) ==
    IF top = <<>>
    THEN <<>>
    ELSE KeyFactor(names[top[1]], top[1], w) \o KeyFactors(Tail(top), names, w)

KeyFactorsHeader ==
    El("subheader", "Key Factors Influencing Your Risk", "", 0, <<>>, 0)

\* lines 115-139; pd.DataFrame raises when the two columns differ in length
\* (variant: the hasattr guard left out)
ImportanceSectionMutant(classifier, names, top, w) ==
    <<KeyFactorsHeader>>
    \o (IF Len(names) # Len(classifier.feature_importances_)
        THEN <<ErrorMessage>>
        ELSE KeyFactors(top, names, w))
ImportanceSection(classifier, names, top, w) ==
    IF ~classifier.has_importances
    THEN <<>>
    ELSE <<KeyFactorsHeader>>
         \o (IF Len(names) # Len(classifier.feature_importances_)
             THEN <<ErrorMessage>>
             ELSE KeyFactors(top, names, w))

\* lines 61-142: the elements the handler renders.  Each st.* call shows its
\* element at once, so what was rendered before an exception stays on the
\* page and the message of the except clause follows it.
Assessment(w, m, names, top) ==
    LET prediction == PredictProba(m, InputData(w))
    IN  IF prediction.raised
        THEN <<ErrorMessage>>
        ELSE Results(prediction.risk_score)
             \o ImportanceSection(m.classifier, names, top, w)

\* the run that rendered pg ended in the except clause
Failed(pg) == \E i \in DOMAIN pg : pg[i] = ErrorMessage

----------------------------------------------------------------------------
(* The state machine *)

\* a classifier with importances for the first feature only, one without
\* importances, and the two with a vector of the wrong length
BasicClassifiers(names) ==
    {c \in Classifiers(names) :
        \/ ~c.has_importances
        \/ \A i \in 1..Len(names) :
              c.feature_importances_[i] = (IF i = 1 THEN MaxWeight ELSE 0)}
    \cup MismatchedClassifiers(names)

\* The artifacts on disk: any predictor with a basic classifier over the
\* baseline names, or the baseline predictor with any classifier over any list
\* of names.
Init ==
    /\ \E names \in FeatureNameLists, pr \in Predictors :
         \E c \in Classifiers(names) \cup MismatchedClassifiers(names) :
            /\ \/ pr = BaselinePredictor
               \/ names = BaselineNames /\ c \in BasicClassifiers(names)
            /\ model = [predict_proba |-> pr.predict_proba,
                        unseen |-> pr.unseen, classifier |-> c]
            /\ feature_names = names
            /\ top_features \in TopFeaturesOutcomes(names, c)
    /\ loaded = [model |-> model, feature_names |-> feature_names]
    /\ failed_before = FALSE
    /\ widgets = Defaults
    /\ submitted = FALSE
    /\ input_data = <<>>
    /\ page = <<>>

\* a run of the script without the button pressed (the page is opened):
\* the widgets show their defaults and the handler is skipped
Reload ==
    /\ widgets' = Defaults
    /\ submitted' = FALSE
    /\ input_data' = <<>>
    /\ page' = <<>>
    /\ failed_before' = (failed_before \/ Failed(page))
    /\ UNCHANGED <<model, feature_names, top_features, loaded>>

\* a run of the script with the button pressed, lines 47-142
\* (variant: a failed run leaves feature_names emptied)
SubmitMutant ==
    \E w \in TypedForms :
        /\ FormAccepts(w)
        /\ widgets' = w
        /\ submitted' = TRUE
        /\ input_data' = <<InputData(w)>>
        /\ page' = Assessment(w, model, feature_names, top_features)
        /\ failed_before' = (failed_before \/ Failed(page))
        /\ feature_names' = (IF page'[Len(page')] = ErrorMessage
                             THEN <<>> ELSE feature_names)
        /\ UNCHANGED <<model, top_features, loaded>>
Submit ==
    \E w \in TypedForms :
        /\ FormAccepts(w)
        /\ widgets' = w
        /\ submitted' = TRUE
        /\ input_data' = <<InputData(w)>>
        /\ page' = Assessment(w, model, feature_names, top_features)
        /\ failed_before' = (failed_before \/ Failed(page))
        /\ UNCHANGED <<model, feature_names, top_features, loaded>>

Next == Submit \/ Reload

Spec == Init /\ [][Next]_vars

----------------------------------------------------------------------------
(* Reading a rendered page *)

Indices(pg, P(_)) == {i \in DOMAIN pg : P(pg[i])}

IsMetric(e) == e.kind = "metric"
IsBlock(e) == e.kind \in {"success", "warning", "error"} /\ e.items # <<>>
IsSentence(e) == e.kind = "write" /\ e.row > 0
IsLevelLine(e) == e.kind = "write" /\ e.text = "classified as"
IsError(e) == e = ErrorMessage
IsFactorsHeader(e) == e = KeyFactorsHeader

Sentences(pg) == SelectSeq(pg, IsSentence)

\* the record the predictor received and what it answered, in a run that
\* called it
Prediction == PredictProba(model, input_data[1])
Predicted == submitted /\ input_data # <<>> /\ ~Prediction.raised

\* the band of a probability, as the documented intervals give it
BandOf(p) ==
    CASE p < 200000 -> "Low Risk"
      [] p >= 200000 /\ p < 500000 -> "Moderate Risk"
      [] p >= 500000 -> "High Risk"

----------------------------------------------------------------------------
(* C1 *)

----------------------------------------------------------------------------
(* C2 *)

\* C2: every page that shows a band shows exactly one recommendation block,
\* the one of that band (3 items for Low, 4 for Moderate, 4 for High); a
\* probability of 0.35 gives Moderate with the four Moderate items.
C2_BlockMatchesBand ==
    \A i \in Indices(page, IsMetric) :
        LET blocks == Indices(page, IsBlock)
        IN  /\ Cardinality(blocks) = 1
            /\ \A b \in blocks :
                 /\ page[i].style = "Low Risk" =>
                       page[b].kind = "success" /\ page[b].items = LowItems
                       /\ Len(page[b].items) = 3
                 /\ page[i].style = "Moderate Risk" =>
                       page[b].kind = "warning" /\ page[b].items = ModerateItems
                       /\ Len(page[b].items) = 4
                 /\ page[i].style = "High Risk" =>
                       page[b].kind = "error" /\ page[b].items = HighItems
                       /\ Len(page[b].items) = 4
                 /\ (Predicted /\ Prediction.risk_score = 350000) =>
                       /\ page[i].style = "Moderate Risk"
                       /\ page[b].items[1] = "Consider lifestyle modifications (diet, exercise)"
                       /\ page[b].items[2] = "Monitor your blood sugar levels more frequently"
                       /\ page[b].items[3] = "Consult with your healthcare provider about prevention strategies"
                       /\ page[b].items[4] = "Consider losing weight if overweight"

\* a submission with probability 0.35 showing the Moderate block
C2_Witness ==
    /\ Predicted
    /\ Prediction.risk_score = 350000
    /\ \E b \in DOMAIN page : IsBlock(page[b]) /\ page[b].items = ModerateItems

----------------------------------------------------------------------------
(* C3 *)

\* C3: when a step of the assessment fails, the page shows the error message
\* and nothing of the result: no score, no band, no recommendations, no
\* attribution sentence; and the predictor was called once, not again.
C3_NoPartialResult ==
    (submitted /\ Indices(page, IsError) # {}) =>
        /\ Len(input_data) = 1
        /\ Cardinality(Indices(page, IsError)) = 1
        /\ Indices(page, IsMetric) = {}
        /\ Indices(page, IsLevelLine) = {}
        /\ Indices(page, IsBlock) = {}
        /\ Indices(page, IsSentence) = {}

----------------------------------------------------------------------------
(* C4 *)

\* C4: with a classifier that has no feature importances, a submission whose
\* prediction succeeded shows no error: the score, the band and its
\* recommendation block are there, and the attribution section is absent
\* (no header, no sentence).
C4_NoImportances ==
    (Predicted /\ ~model.classifier.has_importances) =>
        /\ Indices(page, IsError) = {}
        /\ Cardinality(Indices(page, IsMetric)) = 1
        /\ \A i \in Indices(page, IsMetric) :
              /\ page[i].style = BandOf(Prediction.risk_score)
              /\ page[i].value * 1000 - Prediction.risk_score \in -500..500
        /\ Cardinality(Indices(page, IsBlock)) = 1
        /\ Indices(page, IsFactorsHeader) = {}
        /\ Indices(page, IsSentence) = {}

\* a successful submission to a classifier without importances
C4_Witness ==
    /\ Predicted
    /\ ~model.classifier.has_importances
    /\ Indices(page, IsBlock) # {}

----------------------------------------------------------------------------
(* C5 *)

\* C5: in every state the model, its classifier and the feature-name list are
\* the ones loaded at start, and the page of a submission is what the handler
\* renders from the submitted field values and those artifacts alone: two
\* submissions of the same values show the same page, whatever ran between.
C5_Isolation ==
    /\ model = loaded.model
    /\ feature_names = loaded.feature_names
    /\ submitted =>
          /\ input_data = <<InputData(widgets)>>
          /\ page = Assessment(widgets, loaded.model, loaded.feature_names,
                               top_features)

\* a submission that succeeds after an earlier one failed
C5_Witness ==
    /\ failed_before
    /\ Predicted
    /\ ~Failed(page)
    /\ Indices(page, IsBlock) # {}

----------------------------------------------------------------------------
(* C6 *)

\* C6: every record handed to the predictor has gender in {Female, Male,
\* Other}, 18 <= age <= 120, hypertension and heart_disease 0 or 1 and 1
\* exactly when the form says Yes, smoking_history in {never, former,
\* current, unknown}, 10.0 <= bmi <= 60.0, 3.0 <= HbA1c <= 15.0 and
\* 50 <= blood glucose <= 300.
C6_RecordInRange ==
    \A k \in DOMAIN input_data :
        LET r == input_data[k]
        IN  /\ r.gender \in {"Female", "Male", "Other"}
            /\ r.age >= 18 /\ r.age <= 120
            /\ r.hypertension \in {0, 1}
            /\ r.hypertension = 1 <=> widgets.hypertension = "Yes"
            /\ r.heart_disease \in {0, 1}
            /\ r.heart_disease = 1 <=> widgets.heart_disease = "Yes"
            /\ r.smoking_history \in {"never", "former", "current", "unknown"}
            /\ r.bmi >= 100 /\ r.bmi <= 600
            /\ r.HbA1c_level >= 30 /\ r.HbA1c_level <= 150
            /\ r.blood_glucose_level >= 50 /\ r.blood_glucose_level <= 300

\* a record at the upper end of the age range reached the predictor
C6_Witness ==
    /\ input_data # <<>>
    /\ input_data[1].age = 120

----------------------------------------------------------------------------
(* Reading the attribution section *)

\* the six templates in the order the handler tries them
TemplateKeys ==
    <<"HbA1c_level", "blood_glucose_level", "bmi", "age",
      "hypertension", "heart_disease">>
TemplateTitles ==
    <<"High HbA1c Level", "Blood Glucose Level", "BMI", "Age",
      "Hypertension", "Heart Disease">>

Mentions(name, key) == key \in Range(name)

\* the templates whose key the name mentions
Matching(name) == {k \in DOMAIN TemplateKeys : Mentions(name, TemplateKeys[k])}

FirstMatching(name) ==
    CHOOSE k \in Matching(name) : \A l \in Matching(name) : k <= l

\* the value of the current submission that template k reports
EnteredValue(k) ==
    CASE k = 1 -> widgets.hba1c_level
      [] k = 2 -> widgets.blood_glucose_level
      [] k = 3 -> widgets.bmi
      [] k = 4 -> widgets.age
      [] OTHER -> 0

\* whether the form answers Yes to the question template k depends on
Answered(k) ==
    CASE k = 5 -> widgets.hypertension = "Yes"
      [] k = 6 -> widgets.heart_disease = "Yes"
      [] OTHER -> TRUE

\* a submission that reached the loop over top_features
Attributed ==
    /\ Predicted
    /\ model.classifier.has_importances
    /\ Len(feature_names) = Len(model.classifier.feature_importances_)

\* positions of the three top-ranked features
TopRanked == {i \in DOMAIN top_features : i <= 3}

SentencesOfRow(r) == {i \in DOMAIN page : IsSentence(page[i]) /\ page[i].row = r}

----------------------------------------------------------------------------
(* C7 *)

\* C7: a page never shows more than 3 attribution sentences, never more than
\* there are features among the 3 top-ranked whose name matches a template,
\* and never two sentences for the same feature.
C7_AtMostTopK ==
    submitted =>
        /\ Len(Sentences(page)) <= 3
        /\ Len(Sentences(page))
              <= Cardinality({i \in TopRanked :
                                Matching(feature_names[top_features[i]]) # {}})
        /\ \A i \in Indices(page, IsSentence) :
              /\ Cardinality(SentencesOfRow(page[i].row)) = 1
              /\ \E j \in TopRanked : top_features[j] = page[i].row

\* three sentences for three covered top-ranked features out of more
C7_Witness ==
    /\ Attributed
    /\ Len(feature_names) > 3
    /\ Len(Sentences(page)) = 3

----------------------------------------------------------------------------
(* C8 *)

\* C8: for a top-3 feature named after hypertension (heart_disease) and the
\* answer No, no sentence is written for that feature, neither the
\* hypertension (heart disease) one nor another; a hypertension (heart
\* disease) sentence on the page means the feature is in the top 3 and the
\* answer is Yes.
C8_Suppressed ==
    submitted =>
        /\ \A i \in TopRanked :
              LET r == top_features[i]
              IN  /\ (Mentions(feature_names[r], "hypertension")
                        /\ widgets.hypertension = "No")
                       => SentencesOfRow(r) = {}
                  /\ (Mentions(feature_names[r], "heart_disease")
                        /\ widgets.heart_disease = "No")
                       => SentencesOfRow(r) = {}
        /\ \A i \in Indices(page, IsSentence) :
              /\ page[i].text = "Hypertension" =>
                    /\ widgets.hypertension = "Yes"
                    /\ \E j \in TopRanked :
                          /\ top_features[j] = page[i].row
                          /\ Mentions(feature_names[page[i].row], "hypertension")
              /\ page[i].text = "Heart Disease" =>
                    /\ widgets.heart_disease = "Yes"
                    /\ \E j \in TopRanked :
                          /\ top_features[j] = page[i].row
                          /\ Mentions(feature_names[page[i].row], "heart_disease")

\* hypertension ranks in the top 3, the answer is No, and the rest of the
\* section was written
C8_Witness ==
    /\ Attributed
    /\ widgets.hypertension = "No"
    /\ \E j \in TopRanked : Mentions(feature_names[top_features[j]], "hypertension")
    /\ Sentences(page) # <<>>

----------------------------------------------------------------------------
(* C9 *)

Importance(r) == model.classifier.feature_importances_[r]

\* the selected rows are the first 3 (all, when there are fewer) by weight
\* descending, and the sentences follow the order of the selection
SelectedByWeight ==
    /\ Len(top_features) = (IF Len(feature_names) < 3 THEN Len(feature_names) ELSE 3)
    /\ \A i, j \in DOMAIN top_features :
          /\ top_features[i] \in DOMAIN feature_names
          /\ i < j => top_features[i] # top_features[j]
          /\ i < j => Importance(top_features[i]) >= Importance(top_features[j])
    /\ \A u \in DOMAIN feature_names :
          (\A i \in DOMAIN top_features : top_features[i] # u)
             => \A i \in DOMAIN top_features :
                   Importance(u) <= Importance(top_features[i])
    /\ \A a, b \in DOMAIN page :
          (IsSentence(page[a]) /\ IsSentence(page[b]) /\ a < b)
             => \E i, j \in DOMAIN top_features :
                   /\ i < j
                   /\ top_features[i] = page[a].row
                   /\ top_features[j] = page[b].row

\* C9 as stated: the selection is by weight descending, and of two selected
\* features with equal weight the one earlier in the feature-name list comes
\* earlier.
C9_StableOrder ==
    Attributed =>
        /\ SelectedByWeight
        /\ \A i, j \in DOMAIN top_features :
              (i < j /\ Importance(top_features[i]) = Importance(top_features[j]))
                 => top_features[i] < top_features[j]

\* C9 amended: the features selected are the first 3 by importance weight
\* descending: a selected feature with a higher weight comes earlier, no
\* unselected feature has a weight higher than a selected one, and the
\* sentences follow that order.  The order among equal weights is whatever the
\* sort yields.
C9_Descending ==
    Attributed => SelectedByWeight

\* a selection of 3 out of more features with different weights
C9_Witness ==
    /\ Attributed
    /\ Len(feature_names) > 3
    /\ \E i, j \in DOMAIN top_features :
          Importance(top_features[i]) > Importance(top_features[j])
    /\ Len(Sentences(page)) >= 2

----------------------------------------------------------------------------
(* C10 *)

\* C10: in a submission that reaches the attribution loop no error is shown;
\* a top-ranked feature whose name matches none of the six templates gets no
\* sentence, and the page then has fewer than 3 sentences; a feature whose
\* name matches gets the sentence of the first matching template, filled with
\* the value entered in this submission (for hypertension and heart disease:
\* when the answer is Yes).
C10_Templates ==
    Attributed =>
        /\ Indices(page, IsError) = {}
        /\ \A i \in TopRanked :
              LET r == top_features[i]
                  name == feature_names[r]
              IN  IF Matching(name) = {}
                  THEN /\ SentencesOfRow(r) = {}
                       /\ Len(Sentences(page)) < 3
                  ELSE LET k == FirstMatching(name)
                       IN  /\ Answered(k) => Cardinality(SentencesOfRow(r)) = 1
                           /\ \A s \in SentencesOfRow(r) :
                                 /\ page[s].text = TemplateTitles[k]
                                 /\ page[s].value = EnteredValue(k)

\* a gender or smoking feature in the top 3 next to a matched feature whose
\* sentence carries a value typed in this submission
C10_Witness ==
    /\ Attributed
    /\ \E i \in TopRanked : Matching(feature_names[top_features[i]]) = {}
    /\ \E s \in Indices(page, IsSentence) :
          page[s].text = "Age" /\ page[s].value = 120

====
